---- MODULE Spec2Model ----
(***************************************************************************)
(* Model of sciphi/scripts/make_embeddings.py: the JSONL stream reader,    *)
(* the sentence chunker, the embedding store (memmap + shape sidecar), the *)
(* metadata store (gzipped JSONL) and the batch loop of main().            *)
(*                                                                         *)
(* A Python str is a sequence of one-character strings, a list or a tuple  *)
(* is a sequence, a dict is a function, None is the empty sequence or 0.   *)
(***************************************************************************)
EXTENDS Integers, Sequences, FiniteSets, TLC

VARIABLES
    \* stream_jsonl: the input file and the generator's frame
    file_lines,       \* the lines of the gzipped input file
    line_no,          \* number of lines the generator has consumed
    gen_state,        \* "idle" | "suspended" | "exhausted" | "raised"
    yielded,          \* history: the entries yielded so far, in order
    \* reconstitute_sentences_into_chunks: arguments and locals
    df, prepend_title_to_each_chunk, truncate_long_chunks,
    chunks, current_chunk, current_length, title, document_id,
    row_no,           \* number of rows of df the loop has consumed
    chunker_pc,       \* "idle" | "loop" | "returned"
    buffer_rows,      \* history: indices of the rows put into current_chunk
    chunk_rows,       \* history: for each emitted chunk, the rows it was built from
    \* main: parameters and locals (chunk_size, ids_to_titles are also the chunker's)
    chunk_size, batch_size, ids_to_titles, document_ids, documents,
    main_pc,          \* "idle" | "loop" | "done" | "aborted"
    flush_log,        \* history: one record per flush (the batch and its chunks)
    \* the files of the two stores
    shape_file, bin_file, meta_file,
    store_op,         \* the store function that ran last
    last_embeddings,  \* history: the array of the last save_embeddings_to_memmap call
    meta_written,     \* history: the entries of all save_metadata_to_file calls, in order
    rows_before,      \* history: rows of the embedding store before its last save
    lines_before,     \* history: metadata lines before the last save_metadata_to_file
    fetch_result      \* what fetch_embedding_and_metadata returned or raised, if it ran last

streamVars  == <<file_lines, line_no, gen_state, yielded>>
chunkerVars == <<df, prepend_title_to_each_chunk, truncate_long_chunks, chunks,
                 current_chunk, current_length, title, document_id, row_no,
                 chunker_pc, buffer_rows, chunk_rows>>
mainVars    == <<batch_size, document_ids, documents, main_pc, flush_log>>
sharedVars  == <<chunk_size, ids_to_titles>>
storeVars   == <<shape_file, bin_file, meta_file, store_op, last_embeddings,
                 meta_written, rows_before, lines_before, fetch_result>>
vars == <<streamVars, chunkerVars, mainVars, sharedVars, storeVars>>

------------------------------------------------------------------------------
(* Bounds of the model *)

MaxDocs      == 2   \* distinct document ids
MaxSentLen   == 2   \* characters in a sentence
MaxRows      == 3   \* sentence rows handed to the chunker
MaxChunkSize == 6   \* largest chunk_size tried
MaxLines     == 5   \* lines of the input file
MaxBatchSize == 3   \* largest batch_size tried
EmbeddingDim == 2   \* length of an embedding vector
MaxMetaLines == 3   \* metadata lines written when the store functions run alone
MaxIdx       == 3   \* largest idx fetched

------------------------------------------------------------------------------
(* Strings *)

Min(a, b) == IF a < b THEN a ELSE b

\* s[:n]
Take(s, n) == SubSeq(s, 1, Min(n, Len(s)))

\* All sequences over S of length lo..hi
SeqsOf(S, lo, hi) == UNION {[1..n -> S] : n \in lo..hi}

RECURSIVE Concat(_)
\* the concatenation of a sequence of sequences
Concat(ss) == IF ss = <<>> THEN <<>> ELSE Head(ss) \o Concat(Tail(ss))

RECURSIVE JoinSpaces(_)
\* " ".join(ss)
JoinSpaces(ss) ==
    IF ss = <<>> THEN <<>>
    ELSE IF Len(ss) = 1 THEN ss[1]
    ELSE ss[1] \o <<" ">> \o JoinSpaces(Tail(ss))

\* f"{title}:\n"
TitlePrefix(t) == t \o <<":", "\n">>

------------------------------------------------------------------------------
(* reconstitute_sentences_into_chunks *)

None == <<>>

\* the locals before the loop (lines 57-61)
ChunkerLocals0 ==
    [chunks |-> <<>>, current_chunk |-> <<>>, current_length |-> 0,
     title |-> None, document_id |-> 0]

\* one iteration of the loop over df.iterrows() (lines 63-87)
LoopBody(st, row, titles, size, prepend, truncate) ==
    LET doc_id   == row.document_id
        sentence == row.text
        ttl      == titles[doc_id]
    IN  IF st.current_length + Len(sentence) > size
        THEN LET closed == <<doc_id, ttl,
                             IF truncate THEN Take(st.current_chunk, size)
                                         ELSE st.current_chunk>>
                 seed   == IF prepend THEN TitlePrefix(ttl) \o sentence
                                      ELSE sentence
             IN  [chunks         |-> Append(st.chunks, closed),
                  current_chunk  |-> seed,
                  current_length |-> Len(seed),
                  title          |-> ttl,
                  document_id    |-> doc_id]
        ELSE [chunks         |-> st.chunks,
              current_chunk  |-> (IF st.current_chunk # <<>>
                                  THEN st.current_chunk \o <<" ">>
                                  ELSE st.current_chunk) \o sentence,
              current_length |-> st.current_length + Len(sentence),
              title          |-> ttl,
              document_id    |-> doc_id]

\* the flush after the loop and the return value (lines 89-91)
FinalFlush(st) ==
    IF st.current_chunk # <<>>
    THEN Append(st.chunks,
                <<st.document_id, st.title, TitlePrefix(st.title) \o st.current_chunk>>)
    ELSE st.chunks

RECURSIVE RunLoop(_, _, _, _, _, _)
RunLoop(st, rows, titles, size, prepend, truncate) ==
    IF rows = <<>> THEN st
    ELSE RunLoop(LoopBody(st, Head(rows), titles, size, prepend, truncate),
                 Tail(rows), titles, size, prepend, truncate)

\* the whole function (lines 37-91)
reconstitute_sentences_into_chunks(rows, titles, size, prepend, truncate) ==
    FinalFlush(RunLoop(ChunkerLocals0, rows, titles, size, prepend, truncate))

------------------------------------------------------------------------------
(* Inputs *)

DocIds == 1..MaxDocs

\* the title of document d: "T", "TT", ...
TitleOf(d) == [k \in 1..d |-> "T"]

\* non-empty sentences over a two-letter alphabet
Sentences == SeqsOf({"a", "b"}, 1, MaxSentLen)

\* rows of one document are consecutive (the frame is grouped by document)
Grouped(rows) ==
    \A i, j, k \in 1..Len(rows) :
        (i < j /\ j < k /\ rows[i].document_id = rows[k].document_id)
            => rows[j].document_id = rows[i].document_id

SentenceRows == [document_id : DocIds, text : Sentences]

Frames == {rows \in SeqsOf(SentenceRows, 0, MaxRows) : Grouped(rows)}

------------------------------------------------------------------------------
(* Rest states of the components a specification does not exercise *)

StreamIdle ==
    /\ file_lines = <<>> /\ line_no = 0 /\ gen_state = "idle" /\ yielded = <<>>

ChunkerIdle ==
    /\ df = <<>> /\ prepend_title_to_each_chunk = TRUE
    /\ truncate_long_chunks = FALSE
    /\ chunks = <<>> /\ current_chunk = <<>> /\ current_length = 0
    /\ title = None /\ document_id = 0 /\ row_no = 0
    /\ chunker_pc = "idle" /\ buffer_rows = <<>> /\ chunk_rows = <<>>

MainIdle ==
    /\ batch_size = 0 /\ document_ids = <<>> /\ documents = <<>>
    /\ main_pc = "idle" /\ flush_log = <<>>

NoFile == [exists |-> FALSE, data |-> <<>>]

StoreIdle ==
    /\ shape_file = NoFile /\ bin_file = NoFile /\ meta_file = NoFile
    /\ store_op = "none" /\ last_embeddings = <<>> /\ meta_written = <<>>
    /\ rows_before = 0 /\ lines_before = 0
    /\ fetch_result = [kind |-> "none"]

------------------------------------------------------------------------------
(* The chunker, one loop iteration per step *)

ChunkerLocals ==
    [chunks |-> chunks, current_chunk |-> current_chunk,
     current_length |-> current_length, title |-> title,
     document_id |-> document_id]

InitChunker ==
    /\ df \in Frames
    /\ ids_to_titles = [d \in DocIds |-> TitleOf(d)]
    /\ chunk_size \in 1..MaxChunkSize
    /\ prepend_title_to_each_chunk \in BOOLEAN
    /\ truncate_long_chunks \in BOOLEAN
    /\ chunks = ChunkerLocals0.chunks
    /\ current_chunk = ChunkerLocals0.current_chunk
    /\ current_length = ChunkerLocals0.current_length
    /\ title = ChunkerLocals0.title
    /\ document_id = ChunkerLocals0.document_id
    /\ row_no = 0 /\ chunker_pc = "loop"
    /\ buffer_rows = <<>> /\ chunk_rows = <<>>
    /\ StreamIdle /\ MainIdle /\ StoreIdle

\* the branch of line 67 is taken for the next row
Overflows == current_length + Len(df[row_no + 1].text) > chunk_size

ChunkerRow ==
    /\ chunker_pc = "loop" /\ row_no < Len(df)
    /\ LET st == LoopBody(ChunkerLocals, df[row_no + 1], ids_to_titles, chunk_size,
                          prepend_title_to_each_chunk, truncate_long_chunks)
       IN  /\ chunks' = st.chunks
           /\ current_chunk' = st.current_chunk
           /\ current_length' = st.current_length
           /\ title' = st.title
           /\ document_id' = st.document_id
    /\ row_no' = row_no + 1
    /\ IF Overflows
       THEN /\ chunk_rows' = Append(chunk_rows, buffer_rows)
            /\ buffer_rows' = <<row_no + 1>>
       ELSE /\ chunk_rows' = chunk_rows
            /\ buffer_rows' = Append(buffer_rows, row_no + 1)
    /\ UNCHANGED <<df, prepend_title_to_each_chunk, truncate_long_chunks, chunker_pc>>
    /\ UNCHANGED <<streamVars, mainVars, sharedVars, storeVars>>

ChunkerReturn ==
    /\ chunker_pc = "loop" /\ row_no = Len(df)
    /\ chunks' = FinalFlush(ChunkerLocals)
    /\ chunk_rows' = IF current_chunk # <<>> THEN Append(chunk_rows, buffer_rows)
                                             ELSE chunk_rows
    /\ chunker_pc' = "returned"
    /\ UNCHANGED <<df, prepend_title_to_each_chunk, truncate_long_chunks,
                   current_chunk, current_length, title, document_id, row_no,
                   buffer_rows>>
    /\ UNCHANGED <<streamVars, mainVars, sharedVars, storeVars>>

NextChunker == ChunkerRow \/ ChunkerReturn

SpecChunker == InitChunker /\ [][NextChunker]_vars

------------------------------------------------------------------------------
(* Properties of the chunker *)

\* the sentences of the rows with the given indices, in order
RowTexts(idx) == [k \in 1..Len(idx) |-> df[idx[k]].text]

RECURSIVE TotalLen(_)
TotalLen(ss) == IF ss = <<>> THEN 0 ELSE Len(Head(ss)) + TotalLen(Tail(ss))

AllRows == [k \in 1..Len(df) |-> k]

OneDocument == \A i, j \in 1..Len(df) : df[i].document_id = df[j].document_id

\* C6: rows of one document whose total sentence length is at most chunk_size
\* give exactly one chunk: the sentences joined by single spaces, with the
\* title prefix when prepend_title_to_each_chunk is true and without it when
\* it is false.
C6_SingleChunkPerFlag ==
    (/\ chunker_pc = "returned" /\ Len(df) >= 1 /\ OneDocument
     /\ TotalLen(RowTexts(AllRows)) <= chunk_size)
    => /\ Len(chunks) = 1
       /\ chunks[1][3] =
            (IF prepend_title_to_each_chunk
             THEN TitlePrefix(ids_to_titles[df[1].document_id]) ELSE <<>>)
            \o JoinSpaces(RowTexts(AllRows))

\* C8: a chunk closed inside the loop is tagged with the document id and the
\* title of the previous row, the last row whose sentence went into its
\* buffer, not with those of the row that triggered the close.
C8_ClosedChunkTaggedWithPreviousRow ==
    chunker_pc = "loop" =>
        \A k \in 1..Len(chunks) :
            chunk_rows[k] # <<>> =>
                LET prev == df[chunk_rows[k][Len(chunk_rows[k])]]
                IN  /\ chunks[k][1] = prev.document_id
                    /\ chunks[k][2] = ids_to_titles[prev.document_id]

\* C9: every returned chunk holds sentences of exactly one document, the one
\* it is tagged with; a change of document_id always ends the current chunk.
C9_ChunksNeverCrossDocuments ==
    chunker_pc = "returned" =>
        \A k \in 1..Len(chunks) :
            \A n \in 1..Len(chunk_rows[k]) :
                df[chunk_rows[k][n]].document_id = chunks[k][1]

\* C10: with prepend_title_to_each_chunk true and truncation off, every
\* returned chunk is non-empty and its text is the title prefix, once,
\* followed by its sentences joined by spaces.
C10_TitlePrefixOnEveryChunk ==
    (/\ chunker_pc = "returned" /\ prepend_title_to_each_chunk
     /\ ~truncate_long_chunks)
    => \A k \in 1..Len(chunks) :
          /\ chunk_rows[k] # <<>>
          /\ chunks[k][3] =
                TitlePrefix(chunks[k][2]) \o JoinSpaces(RowTexts(chunk_rows[k]))

------------------------------------------------------------------------------
(* stream_jsonl *)

\* A line of the input file: text that json.loads accepts, with the object it
\* decodes to, or text that json.loads rejects.
MalformedLine == [json |-> FALSE, entry |-> <<>>]

\* json.loads(line.strip()) (line 31)
JsonLoadsLine(line) ==
    IF line.json THEN [ok |-> TRUE, entry |-> line.entry] ELSE [ok |-> FALSE]

\* `"page_id" not in entry` is false (line 32)
HasPageId(entry) == "page_id" \in DOMAIN entry

\* StreamAdvance with a malformed line skipped like a line without page_id
RECURSIVE StreamAdvanceSkippingMalformed(_, _)
StreamAdvanceSkippingMalformed(lines, n) ==
    IF n = Len(lines) THEN [line_no |-> n, outcome |-> "exhausted"]
    ELSE LET parsed == JsonLoadsLine(lines[n + 1])
         IN  IF ~parsed.ok \/ ~HasPageId(parsed.entry)
             THEN StreamAdvanceSkippingMalformed(lines, n + 1)
             ELSE [line_no |-> n + 1, outcome |-> "yield", entry |-> parsed.entry]

\* One resumption of the generator with n lines consumed: it runs the loop of
\* lines 30-34 until it yields, the file ends, or json.loads raises.
RECURSIVE StreamAdvance(_, _)
StreamAdvance(lines, n) ==
    IF n = Len(lines) THEN [line_no |-> n, outcome |-> "exhausted"]
    ELSE LET parsed == JsonLoadsLine(lines[n + 1])
         IN  IF ~parsed.ok THEN [line_no |-> n + 1, outcome |-> "raised"]
             ELSE IF ~HasPageId(parsed.entry) THEN StreamAdvance(lines, n + 1)
             ELSE [line_no |-> n + 1, outcome |-> "yield", entry |-> parsed.entry]

\* the text of document d, already cut into sentences: "a", "bb", "aaa", ...
DocText(d) == [k \in 1..d |-> [j \in 1..k |-> IF k % 2 = 1 THEN "a" ELSE "b"]]

DocumentRecord(d) == [page_id |-> d, title |-> TitleOf(d), text |-> DocText(d)]

InputLines ==
    {[json |-> TRUE, entry |-> DocumentRecord(d)] : d \in DocIds}
    \cup {[json |-> TRUE, entry |-> [title |-> TitleOf(1), text |-> DocText(1)]]}
    \cup {MalformedLine}

InputFiles == SeqsOf(InputLines, 0, MaxLines)

InitStream ==
    /\ file_lines \in InputFiles
    /\ line_no = 0 /\ gen_state = "suspended" /\ yielded = <<>>
    /\ ChunkerIdle /\ MainIdle /\ StoreIdle
    /\ chunk_size = 0 /\ ids_to_titles = <<>>

\* next() on the generator
StreamNext ==
    /\ gen_state = "suspended"
    /\ LET r == StreamAdvance(file_lines, line_no)
       IN  /\ line_no' = r.line_no
           /\ gen_state' = IF r.outcome = "yield" THEN "suspended" ELSE r.outcome
           /\ yielded' = IF r.outcome = "yield" THEN Append(yielded, r.entry)
                                                ELSE yielded
    /\ UNCHANGED <<file_lines, chunkerVars, mainVars, sharedVars, storeVars>>

SpecStream == InitStream /\ [][StreamNext]_vars

\* the entries of the lines that carry page_id, in order
RECURSIVE Records(_)
Records(lines) ==
    IF lines = <<>> THEN <<>>
    ELSE IF lines[1].json /\ "page_id" \in DOMAIN lines[1].entry
         THEN <<lines[1].entry>> \o Records(Tail(lines))
         ELSE Records(Tail(lines))

\* the index of the first line that is not valid JSON, 0 if there is none
FirstMalformed ==
    IF \E i \in 1..Len(file_lines) : ~file_lines[i].json
    THEN CHOOSE i \in 1..Len(file_lines) :
            /\ ~file_lines[i].json
            /\ \A j \in 1..(i - 1) : file_lines[j].json
    ELSE 0

\* C7: the generator yields, in file order and once each, exactly the records
\* of the lines that carry page_id; a line without page_id is skipped and the
\* stream goes on; the first line that is not JSON raises, and nothing is
\* yielded after it.
C7_StreamYieldsRecordsInOrder ==
    /\ yielded = Records(SubSeq(file_lines, 1, line_no))
    /\ gen_state = "suspended" =>
          \A i \in 1..line_no : file_lines[i].json
    /\ gen_state = "exhausted" =>
          /\ FirstMalformed = 0 /\ line_no = Len(file_lines)
          /\ yielded = Records(file_lines)
    /\ gen_state = "raised" =>
          /\ FirstMalformed = line_no /\ line_no >= 1
          /\ yielded = Records(SubSeq(file_lines, 1, FirstMalformed - 1))
          /\ ~ENABLED StreamNext

\* a line without page_id was skipped, a record after it was yielded, and a
\* later malformed line raised
C7_Witness ==
    /\ gen_state = "raised" /\ Len(yielded) >= 2
    /\ \E i, j \in 1..line_no :
          /\ i < j /\ file_lines[i].json /\ ~HasPageId(file_lines[i].entry)
          /\ file_lines[j].json /\ HasPageId(file_lines[j].entry)

------------------------------------------------------------------------------
(* Text conversions used by the stores *)

Digits == <<"0", "1", "2", "3", "4", "5", "6", "7", "8", "9">>

RECURSIVE IntToStr(_)
\* str(n) for n >= 0
IntToStr(n) ==
    IF n < 10 THEN <<Digits[n + 1]>>
    ELSE IntToStr(n \div 10) \o <<Digits[(n % 10) + 1]>>

IsDigit(c) == \E d \in 1..10 : Digits[d] = c

DigitValue(c) == (CHOOSE d \in 1..10 : Digits[d] = c) - 1

IsNumeral(str) == str # <<>> /\ \A i \in 1..Len(str) : IsDigit(str[i])

RECURSIVE StrToInt(_)
\* int(str) for a numeral
StrToInt(str) ==
    IF Len(str) = 1 THEN DigitValue(str[1])
    ELSE 10 * StrToInt(SubSeq(str, 1, Len(str) - 1)) + DigitValue(str[Len(str)])

RECURSIVE FindFrom(_, _, _)
FindFrom(str, c, i) ==
    IF i > Len(str) THEN 0
    ELSE IF str[i] = c THEN i
    ELSE FindFrom(str, c, i + 1)

\* the position of the first element of str equal to c, 0 if there is none
Find(str, c) == FindFrom(str, c, 1)

RECURSIVE Split(_, _)
\* str.split(c)
Split(str, c) ==
    LET i == Find(str, c)
    IN  IF i = 0 THEN <<str>>
        ELSE <<SubSeq(str, 1, i - 1)>> \o Split(SubSeq(str, i + 1, Len(str)), c)

RECURSIVE Join(_, _)
\* c.join(parts)
Join(parts, c) ==
    IF parts = <<>> THEN <<>>
    ELSE IF Len(parts) = 1 THEN parts[1]
    ELSE parts[1] \o <<c>> \o Join(Tail(parts), c)

RECURSIVE ReadLines(_)
\* the lines a text-mode file iterates over, each with its newline
ReadLines(data) ==
    LET i == Find(data, "\n")
    IN  IF data = <<>> THEN <<>>
        ELSE IF i = 0 THEN <<data>>
        ELSE <<SubSeq(data, 1, i)>> \o ReadLines(SubSeq(data, i + 1, Len(data)))

IsSpace(c) == c \in {" ", "\n"}

RECURSIVE Strip(_)
\* str.strip()
Strip(str) ==
    IF str = <<>> THEN str
    ELSE IF IsSpace(str[1]) THEN Strip(Tail(str))
    ELSE IF IsSpace(str[Len(str)]) THEN Strip(SubSeq(str, 1, Len(str) - 1))
    ELSE str

------------------------------------------------------------------------------
(* json.dumps and json.loads of a metadata entry.  The text is a sequence of *)
(* characters in which each piece of punctuation that json.dumps writes      *)
(* around the three values is one element.                                   *)

JsonOpen  == "{\"doc_id\": "
JsonTitle == ", \"title\": \""
JsonChunk == "\", \"text_chunk\": \""
JsonClose == "\"}"

RECURSIVE JsonEscape(_)
\* the body of a JSON string: newline, quote and backslash are escaped
JsonEscape(str) ==
    IF str = <<>> THEN <<>>
    ELSE (CASE str[1] = "\n" -> <<"\\", "n">>
            [] str[1] = "\"" -> <<"\\", "\"">>
            [] str[1] = "\\" -> <<"\\", "\\">>
            [] OTHER -> <<str[1]>>) \o JsonEscape(Tail(str))

RECURSIVE JsonUnescape(_)
JsonUnescape(str) ==
    IF str = <<>> THEN <<>>
    ELSE IF str[1] = "\\" /\ Len(str) >= 2
         THEN <<(IF str[2] = "n" THEN "\n" ELSE str[2])>>
              \o JsonUnescape(SubSeq(str, 3, Len(str)))
         ELSE <<str[1]>> \o JsonUnescape(Tail(str))

\* json.dumps(entry) for entry = {"doc_id": .., "title": .., "text_chunk": ..}
JsonDumps(entry) ==
    <<JsonOpen>> \o IntToStr(entry.doc_id)
    \o <<JsonTitle>> \o JsonEscape(entry.title)
    \o <<JsonChunk>> \o JsonEscape(entry.text_chunk)
    \o <<JsonClose>>

\* json.loads(text): the entry, or a JSONDecodeError
JsonLoads(text) ==
    LET t == Find(text, JsonTitle)
        c == Find(text, JsonChunk)
        n == Len(text)
    IN  IF /\ n >= 5 /\ text[1] = JsonOpen /\ text[n] = JsonClose
           /\ 2 < t /\ t < c /\ c < n
           /\ IsNumeral(SubSeq(text, 2, t - 1))
           /\ \A i \in (t + 1)..(n - 1) :
                 i # c => /\ text[i] \notin {"\n", JsonOpen, JsonTitle, JsonChunk, JsonClose}
                          /\ text[i] = "\"" => (i > 1 /\ text[i - 1] = "\\")
        THEN [ok |-> TRUE,
              entry |-> [doc_id |-> StrToInt(SubSeq(text, 2, t - 1)),
                         title |-> JsonUnescape(SubSeq(text, t + 1, c - 1)),
                         text_chunk |-> JsonUnescape(SubSeq(text, c + 1, n - 1))]]
        ELSE [ok |-> FALSE]

------------------------------------------------------------------------------
(* The embedding store and the metadata store *)

\* embeddings.shape of a non-empty two-dimensional array (line 102)
ShapeOf(embeddings) == <<Len(embeddings), Len(embeddings[1])>>

\* ",".join(map(str, shape)) (line 106)
ShapeText(shape) == Join([k \in 1..Len(shape) |-> IntToStr(shape[k])], ",")

\* the bytes of an array in row-major order
RowMajor(embeddings) == Concat(embeddings)

\* save_embeddings_to_memmap keeping the old rows and adding the new ones
SaveEmbeddingsAppending(embeddings, old_shape_file, old_bin_file) ==
    LET rows == (IF old_shape_file.exists
                 THEN StrToInt(Split(old_shape_file.data, ",")[1]) ELSE 0)
                + Len(embeddings)
    IN  [shape_file |-> [exists |-> TRUE,
                         data |-> ShapeText(<<rows, Len(embeddings[1])>>)],
         bin_file   |-> [exists |-> TRUE,
                         data |-> old_bin_file.data \o RowMajor(embeddings)]]

\* save_embeddings_to_memmap (lines 94-118): the sidecar is opened with "w" and
\* the memmap with "w+", so both files are created or truncated
save_embeddings_to_memmap(embeddings, old_shape_file, old_bin_file) ==
    [shape_file |-> [exists |-> TRUE, data |-> ShapeText(ShapeOf(embeddings))],
     bin_file   |-> [exists |-> TRUE, data |-> RowMajor(embeddings)]]

\* save_metadata_to_file that opens the file with "wt"
SaveMetadataTruncating(metadata, old_meta_file) ==
    [exists |-> TRUE,
     data |-> Concat([k \in 1..Len(metadata) |-> JsonDumps(metadata[k]) \o <<"\n">>])]

\* save_metadata_to_file (lines 121-131): the file is opened with "at"
save_metadata_to_file(metadata, old_meta_file) ==
    [exists |-> TRUE,
     data |-> old_meta_file.data
              \o Concat([k \in 1..Len(metadata) |-> JsonDumps(metadata[k]) \o <<"\n">>])]

\* _load_shape_from_file (lines 134-139)
LoadShapeFromFile(file) ==
    LET parts == Split(file.data, ",")
    IN  [k \in 1..Len(parts) |-> StrToInt(parts[k])]

\* fetch_embedding_and_metadata (lines 142-172): the returned pair, or the
\* exception the call ends with
fetch_embedding_and_metadata(embeddings_shape, embeddings_file, metadata_file, idx) ==
    IF ~embeddings_shape.exists \/ ~embeddings_file.exists
    THEN [kind |-> "FileNotFoundError", idx |-> idx]
    ELSE
    LET shape == LoadShapeFromFile(embeddings_shape)
        lines == ReadLines(metadata_file.data)
    IN  IF Len(embeddings_file.data) < shape[1] * shape[2]
        THEN [kind |-> "ValueError", idx |-> idx]
        ELSE IF idx >= shape[1]
        THEN [kind |-> "IndexError", idx |-> idx]
        ELSE IF ~metadata_file.exists
        THEN [kind |-> "FileNotFoundError", idx |-> idx]
        ELSE IF idx >= Len(lines)
        THEN [kind |-> "UnboundLocalError", idx |-> idx]
        ELSE LET parsed == JsonLoads(Strip(lines[idx + 1]))
             IN  IF ~parsed.ok
                 THEN [kind |-> "JSONDecodeError", idx |-> idx]
                 ELSE [kind |-> "ok", idx |-> idx,
                       embedding |-> SubSeq(embeddings_file.data,
                                            idx * shape[2] + 1, (idx + 1) * shape[2]),
                       metadata |-> parsed.entry]

\* the metadata entry main builds for a chunk (lines 216-219)
MetadataEntry(chunk) ==
    [doc_id |-> chunk[1], title |-> chunk[2], text_chunk |-> chunk[3]]

------------------------------------------------------------------------------
(* The store functions called on their own *)

\* arrays of 1..MaxRows rows whose components are pairwise different
SampleArrays ==
    {[r \in 1..n |-> [k \in 1..EmbeddingDim |-> (v + r) * EmbeddingDim + k]] :
        n \in 1..MaxRows, v \in 0..1}

SampleEntries ==
    {MetadataEntry(<<d, TitleOf(d), TitlePrefix(TitleOf(d)) \o <<"a">>>>) : d \in 1..2}

SampleMetadata == SeqsOf(SampleEntries, 0, MaxMetaLines)

InitStore ==
    /\ StoreIdle /\ StreamIdle /\ ChunkerIdle /\ MainIdle
    /\ chunk_size = 0 /\ ids_to_titles = <<>>

SaveEmbeddings ==
    \E embeddings \in SampleArrays :
        LET files == save_embeddings_to_memmap(embeddings, shape_file, bin_file)
        IN  /\ shape_file' = files.shape_file
            /\ bin_file' = files.bin_file
            /\ last_embeddings' = embeddings
            /\ rows_before' = Len(last_embeddings)
            /\ store_op' = "save_embeddings_to_memmap"
            /\ fetch_result' = [kind |-> "none"]
            /\ UNCHANGED <<meta_file, meta_written, lines_before>>
            /\ UNCHANGED <<streamVars, chunkerVars, mainVars, sharedVars>>

SaveMetadata ==
    \E metadata \in SampleMetadata :
        /\ Len(meta_written) + Len(metadata) <= MaxMetaLines
        /\ meta_file' = save_metadata_to_file(metadata, meta_file)
        /\ meta_written' = meta_written \o metadata
        /\ lines_before' = Len(meta_written)
        /\ store_op' = "save_metadata_to_file"
        /\ fetch_result' = [kind |-> "none"]
        /\ UNCHANGED <<shape_file, bin_file, last_embeddings, rows_before>>
        /\ UNCHANGED <<streamVars, chunkerVars, mainVars, sharedVars>>

Fetch ==
    \E idx \in 0..MaxIdx :
        /\ fetch_result' =
              fetch_embedding_and_metadata(shape_file, bin_file, meta_file, idx)
        /\ store_op' = "fetch_embedding_and_metadata"
        /\ UNCHANGED <<shape_file, bin_file, meta_file, last_embeddings, meta_written,
                       rows_before, lines_before>>
        /\ UNCHANGED <<streamVars, chunkerVars, mainVars, sharedVars>>

NextStore == SaveEmbeddings \/ SaveMetadata \/ Fetch

SpecStore == InitStore /\ [][NextStore]_vars

------------------------------------------------------------------------------
(* Properties of the stores *)

\* C3: after any sequence of completed save_embeddings_to_memmap calls on one
\* path, the sidecar and the binary file hold exactly the shape and the rows
\* of the most recent call, and nothing of earlier calls.
C3_EmbeddingStoreHoldsLastBatchOnly ==
    last_embeddings # <<>> =>
        /\ shape_file.exists /\ bin_file.exists
        /\ shape_file.data =
              IntToStr(Len(last_embeddings)) \o <<",">> \o IntToStr(EmbeddingDim)
        /\ LoadShapeFromFile(shape_file) = <<Len(last_embeddings), EmbeddingDim>>
        /\ Len(bin_file.data) = Len(last_embeddings) * EmbeddingDim
        /\ \A r \in 1..Len(last_embeddings) : \A k \in 1..EmbeddingDim :
              bin_file.data[(r - 1) * EmbeddingDim + k] = last_embeddings[r][k]

\* a batch of 3 rows was saved and then a batch of 2 rows: the sidecar reads
\* "2,<dim>" and the file holds 2 rows
C3_Witness ==
    /\ store_op = "save_embeddings_to_memmap"
    /\ rows_before = 3 /\ Len(last_embeddings) = 2
    /\ shape_file.data = <<"2", ",">> \o IntToStr(EmbeddingDim)
    /\ Len(bin_file.data) = 2 * EmbeddingDim

IsPrefix(a, b) == Len(a) <= Len(b) /\ SubSeq(b, 1, Len(a)) = a

\* the lines of the metadata file, each stripped and decoded
DecodedLines(file) ==
    LET lines == ReadLines(file.data)
    IN  [k \in 1..Len(lines) |-> JsonLoads(Strip(lines[k]))]

\* C4: the metadata file's lines are the entries of all save_metadata_to_file
\* calls, in call order and list order, and every call leaves what was
\* written before unchanged and in place.
C4_MetadataStoreAccumulates ==
    /\ [](/\ Len(ReadLines(meta_file.data)) = Len(meta_written)
          /\ \A k \in 1..Len(meta_written) :
                /\ ReadLines(meta_file.data)[k] = JsonDumps(meta_written[k]) \o <<"\n">>
                /\ DecodedLines(meta_file)[k] = [ok |-> TRUE, entry |-> meta_written[k]])
    /\ [][IsPrefix(meta_file.data, meta_file'.data)]_vars

\* a call wrote entries after an earlier call had written some
C4_Witness ==
    /\ store_op = "save_metadata_to_file"
    /\ lines_before >= 1 /\ Len(meta_written) > lines_before
    /\ Len(ReadLines(meta_file.data)) = Len(meta_written)

\* C5: with both stores written, a fetch whose idx is at least the embedding
\* store's row count fails with an out-of-range error, and a fetch whose idx is
\* at least the metadata store's line count fails with an out-of-range error.
C5_FetchOutOfRange ==
    (/\ store_op = "fetch_embedding_and_metadata"
     /\ shape_file.exists /\ bin_file.exists /\ meta_file.exists)
    => /\ fetch_result.idx >= Len(last_embeddings)
            => fetch_result.kind = "IndexError"
       /\ fetch_result.idx >= Len(meta_written)
            => fetch_result.kind = "IndexError"

------------------------------------------------------------------------------
(* main *)

RECURSIVE process_documents(_, _)
\* sciphi.llm.embedding_helpers.process_documents: one sentence row per
\* sentence of each document, in document order then sentence order
process_documents(docs, ids) ==
    IF docs = <<>> THEN <<>>
    ELSE [k \in 1..Len(docs[1]) |-> [document_id |-> ids[1], text |-> docs[1][k]]]
         \o process_documents(Tail(docs), Tail(ids))

\* SentenceTransformer.encode(texts, normalize_embeddings=True): one vector of
\* EmbeddingDim components per text, in order, determined by the text
Encode(texts) ==
    [i \in 1..Len(texts) |-> [k \in 1..EmbeddingDim |-> <<texts[i], k>>]]

\* d[key] = value on a dict
DictSet(d, key, value) ==
    [x \in DOMAIN d \cup {key} |-> IF x = key THEN value ELSE d[x]]

\* the flush that fires one record late
BatchFullOneLate(ids, size) == Len(ids) = size + 1

\* len(document_ids) == batch_size (line 204)
BatchFull(ids, size) == Len(ids) = size

\* lines 205-213: the chunks of the batch and their embeddings
BatchChunks(docs, ids, titles, size) ==
    reconstitute_sentences_into_chunks(process_documents(docs, ids), titles, size,
                                       TRUE, FALSE)

ChunkTexts(cs) == [k \in 1..Len(cs) |-> cs[k][3]]

MetadataList(cs) == [k \in 1..Len(cs) |-> MetadataEntry(cs[k])]

\* main stops reading at the first malformed line, so the files it is run on
\* have none or end with one
MainInputFiles ==
    {f \in InputFiles : \A i \in 1..(Len(f) - 1) : f[i].json}

Init ==
    /\ file_lines \in MainInputFiles
    /\ line_no = 0 /\ gen_state = "suspended" /\ yielded = <<>>
    /\ batch_size \in 1..MaxBatchSize
    /\ chunk_size \in {1, MaxChunkSize}
    /\ document_ids = <<>> /\ documents = <<>> /\ ids_to_titles = <<>>
    /\ main_pc = "loop" /\ flush_log = <<>>
    /\ ChunkerIdle /\ StoreIdle

\* one iteration of the loop of lines 200-225: the generator yields an entry,
\* the entry joins the batch, and a full batch is chunked, embedded, saved to
\* both stores and reset
MainIterate ==
    /\ main_pc = "loop"
    /\ LET r == StreamAdvance(file_lines, line_no)
       IN  /\ r.outcome = "yield"
           /\ line_no' = r.line_no
           /\ yielded' = Append(yielded, r.entry)
           /\ LET ids    == Append(document_ids, r.entry.page_id)
                  docs   == Append(documents, r.entry.text)
                  titles == DictSet(ids_to_titles, r.entry.page_id, r.entry.title)
              IN  IF BatchFull(ids, batch_size)
                  THEN LET cs == BatchChunks(docs, ids, titles, chunk_size)
                           chunk_embedding == Encode(ChunkTexts(cs))
                           files == save_embeddings_to_memmap(chunk_embedding,
                                                              shape_file, bin_file)
                       IN  /\ shape_file' = files.shape_file
                           /\ bin_file' = files.bin_file
                           /\ meta_file' = save_metadata_to_file(MetadataList(cs),
                                                                 meta_file)
                           /\ document_ids' = <<>>
                           /\ documents' = <<>>
                           /\ ids_to_titles' = <<>>
                           /\ flush_log' = Append(flush_log,
                                                  [document_ids |-> ids, chunks |-> cs,
                                                   embeddings |-> chunk_embedding])
                           /\ rows_before' = Len(last_embeddings)
                           /\ last_embeddings' = chunk_embedding
                           /\ lines_before' = Len(meta_written)
                           /\ meta_written' = meta_written \o MetadataList(cs)
                           /\ store_op' = "save_metadata_to_file"
                  ELSE /\ document_ids' = ids
                       /\ documents' = docs
                       /\ ids_to_titles' = titles
                       /\ UNCHANGED <<shape_file, bin_file, meta_file, flush_log,
                                      rows_before, last_embeddings, lines_before,
                                      meta_written, store_op>>
    /\ UNCHANGED <<file_lines, gen_state, batch_size, chunk_size, main_pc,
                   fetch_result, chunkerVars>>

\* the generator is exhausted: the loop ends and main returns (nothing follows
\* the loop, so a partial batch is dropped)
MainFinish ==
    /\ main_pc = "loop"
    /\ LET r == StreamAdvance(file_lines, line_no)
       IN  /\ r.outcome = "exhausted"
           /\ line_no' = r.line_no
    /\ gen_state' = "exhausted"
    /\ main_pc' = "done"
    /\ UNCHANGED <<file_lines, yielded, batch_size, document_ids, documents,
                   flush_log, sharedVars, storeVars, chunkerVars>>

\* json.loads raises inside the generator: the exception leaves main
MainAbort ==
    /\ main_pc = "loop"
    /\ LET r == StreamAdvance(file_lines, line_no)
       IN  /\ r.outcome = "raised"
           /\ line_no' = r.line_no
    /\ gen_state' = "raised"
    /\ main_pc' = "aborted"
    /\ UNCHANGED <<file_lines, yielded, batch_size, document_ids, documents,
                   flush_log, sharedVars, storeVars, chunkerVars>>

Next == MainIterate \/ MainFinish \/ MainAbort

Spec == Init /\ [][Next]_vars

\* a reader calls fetch_embedding_and_metadata on the two output paths after
\* the run has ended
FetchAfterRun == main_pc = "done" /\ Fetch

NextRoundTrip == Next \/ FetchAfterRun

SpecRoundTrip == Init /\ [][NextRoundTrip]_vars

------------------------------------------------------------------------------
(* Properties of the pipeline *)

\* the records of the k-th group of batch_size yielded records
BatchRecords(k) == SubSeq(yielded, (k - 1) * batch_size + 1, k * batch_size)

PageIds(recs) == [j \in 1..Len(recs) |-> recs[j].page_id]

Texts(recs) == [j \in 1..Len(recs) |-> recs[j].text]

\* the id-to-title dict the records build: the last title given for each id
TitlesOf(recs) ==
    [d \in {recs[j].page_id : j \in 1..Len(recs)} |->
        recs[CHOOSE j \in 1..Len(recs) :
                /\ recs[j].page_id = d
                /\ \A i \in (j + 1)..Len(recs) : recs[i].page_id # d].title]

\* the metadata entries of the chunks of a group of records
EntriesOf(recs) ==
    MetadataList(BatchChunks(Texts(recs), PageIds(recs), TitlesOf(recs), chunk_size))

RECURSIVE EntriesOfBatches(_)
\* the entries of the first k groups, in order
EntriesOfBatches(k) ==
    IF k = 0 THEN <<>> ELSE EntriesOfBatches(k - 1) \o EntriesOf(BatchRecords(k))

\* C2: with n records read and batch_size b >= 1, exactly n div b flushes have
\* happened, the k-th flush covers records (k-1)*b+1 .. k*b in file order, the
\* other n mod b records sit in the in-memory batch, and the metadata file
\* holds the chunks of the flushed records only; the end of the file flushes
\* nothing, so the trailing n mod b records are never persisted.
C2_FlushExactlyOnFullBatch ==
    LET n == Len(yielded)
        b == batch_size
    IN  /\ Len(flush_log) = n \div b
        /\ \A k \in 1..Len(flush_log) :
              flush_log[k].document_ids = PageIds(BatchRecords(k))
        /\ document_ids = PageIds(SubSeq(yielded, (n \div b) * b + 1, n))
        /\ Len(documents) = n % b
        /\ LET persisted == EntriesOfBatches(n \div b)
           IN  DecodedLines(meta_file) =
                  [i \in 1..Len(persisted) |-> [ok |-> TRUE, entry |-> persisted[i]]]
        /\ main_pc = "done" => yielded = Records(file_lines)

\* batch_size 2 and five documents of one chunk each: two flushes, and the
\* chunks of four documents persisted
C2_Witness ==
    /\ main_pc = "done" /\ batch_size = 2 /\ Len(yielded) = 5
    /\ Len(flush_log) = 2
    /\ \A k \in 1..2 : Len(flush_log[k].chunks) = 2
    /\ Len(ReadLines(meta_file.data)) = 4
    /\ Len(document_ids) = 1

\* everything the run persisted, in the order it was written
PersistedChunks == Concat([k \in 1..Len(flush_log) |-> flush_log[k].chunks])

PersistedEmbeddings == Concat([k \in 1..Len(flush_log) |-> flush_log[k].embeddings])

\* C1: after the run has persisted N chunks to the two paths, in one or in
\* several flushes, fetching idx = i for 0 <= i < N returns the embedding and
\* the metadata entry written for the i-th persisted chunk.
C1_RoundTripAcrossStores ==
    (/\ main_pc = "done" /\ store_op = "fetch_embedding_and_metadata"
     /\ fetch_result.idx < Len(PersistedChunks))
    => /\ fetch_result.kind = "ok"
       /\ fetch_result.embedding = PersistedEmbeddings[fetch_result.idx + 1]
       /\ fetch_result.metadata = MetadataEntry(PersistedChunks[fetch_result.idx + 1])

====
